---------------------------- MODULE Spec2Model ----------------------------
(***************************************************************************)
(* A state-machine model of pesign's PE action dispatcher, file_pe.c:      *)
(* pe_handle_action and the open/close helpers it calls.  One run of the   *)
(* model is one call of pe_handle_action on a freshly constructed context. *)
(* Every call that pe_handle_action makes is one step of the run; a step   *)
(* that calls exit() ends the run with status "fatal".                     *)
(*                                                                         *)
(* The collaborators that live outside file_pe.c (the PE library, the CMS  *)
(* engine, the signature table routines) are modelled at their interface.  *)
(***************************************************************************)
EXTENDS Integers, Sequences, FiniteSets, TLC

(***************************************************************************)
(* Bounds of the model.                                                    *)
(***************************************************************************)
\* the input binary carries 0..MaxSigs signatures
MaxSigs == 2
\* the input binary's raw image is RawLen bytes long
RawLen == 2
\* a digest is DigestLen bytes long
DigestLen == 2

(***************************************************************************)
(* Action flags (pesign.h).  An action is the bitwise or of flags.         *)
(***************************************************************************)
GENERATE_DIGEST == 1
GENERATE_SIGNATURE == 2
IMPORT_RAW_SIGNATURE == 4
IMPORT_SIGNATURE == 8
IMPORT_SATTRS == 16
EXPORT_SATTRS == 32
EXPORT_SIGNATURE == 64
REMOVE_SIGNATURE == 128
LIST_SIGNATURES == 256
PRINT_DIGEST == 512
EXPORT_PUBKEY == 1024
EXPORT_CERT == 2048
OMIT_VENDOR_CERT == 4096
FLAG_LIST_END == 8192

Flags ==
    { GENERATE_DIGEST, GENERATE_SIGNATURE, IMPORT_RAW_SIGNATURE,
      IMPORT_SIGNATURE, IMPORT_SATTRS, EXPORT_SATTRS, EXPORT_SIGNATURE,
      REMOVE_SIGNATURE, LIST_SIGNATURES, PRINT_DIGEST, EXPORT_PUBKEY,
      EXPORT_CERT, OMIT_VENDOR_CERT }

\* action & i, for a single-bit i
HasFlag(a, i) == (a \div i) % 2 = 1

(***************************************************************************)
(* Values.                                                                 *)
(***************************************************************************)
NULL == "NULL"
\* descriptors: -1 is the unbound sentinel
InFd == 3
OutFd == 4
AuxFd == 5

\* paths of the model's file system
BinPaths == {"a", "b"}
AuxOutPath == "x"
AuxInPath == "s"
Paths == BinPaths \cup {AuxOutPath}

AuxInRoles == {"rawsig", "insattrs", "insig"}
AuxOutRoles == {"outsattrs", "outsig", "outkey", "outcert"}
AuxRoles == AuxInRoles \cup AuxOutRoles

\* signature entries are identified by a number; 0 is the empty staging slot
NoSig == 0
InputSig(i) == 10 + i
GeneratedSig == 99
ImportedSig == 98

\* st_mode values
InMode == 493
GarbageMode == 7

OldMode == 420

\* a file: its raw image outside the certificate table, the entries of its
\* certificate table, its permission bits, and whether its table is the
\* result of a commit
NoFile ==
    [exists |-> FALSE, raw |-> << >>, certs |-> << >>, mode |-> 0,
     final |-> FALSE]
File(raw, certs, mode, final) ==
    [exists |-> TRUE, raw |-> raw, certs |-> certs, mode |-> mode,
     final |-> final]
InRaw == [i \in 1..RawLen |-> i]
InputFile(n) == File(InRaw, [i \in 1..n |-> InputSig(i - 1)], InMode, TRUE)
OldFile == File(<<9>>, << >>, OldMode, TRUE)

(***************************************************************************)
(* The dispatch table: each case of the switch in pe_handle_action is a    *)
(* straight-line sequence of calls.  A step is [op, arg].                  *)
(***************************************************************************)
S(op, arg) == [op |-> op, arg |-> arg]

\* case IMPORT_RAW_SIGNATURE|IMPORT_SATTRS
ImportRawSteps ==
    << S("check_inputs", ""), S("find_certificate", "0"),
       S("open_aux_input", "rawsig"), S("open_aux_input", "insattrs"),
       S("import_raw_signature", ""),
       S("close_aux_input", "insattrs"), S("close_aux_input", "rawsig"),
       S("open_input", ""), S("open_output", ""), S("close_input", ""),
       S("generate_digest", "outpe"), S("calculate_signature_space", ""),
       S("allocate_signature_space", ""), S("generate_signature", ""),
       S("insert_signature", ""), S("close_output", "") >>

\* EXPORT_SATTRS opening the output binary as well
ExportSattrsSteps_OpenOutput ==
    << S("open_input", ""), S("open_output", ""),
       S("open_aux_output", "outsattrs"),
       S("generate_digest", "inpe"), S("generate_sattr_blob", ""),
       S("close_aux_output", "outsattrs"), S("close_input", "") >>

\* case EXPORT_SATTRS
ExportSattrsSteps ==
    << S("open_input", ""), S("open_aux_output", "outsattrs"),
       S("generate_digest", "inpe"), S("generate_sattr_blob", ""),
       S("close_aux_output", "outsattrs"), S("close_input", "") >>

\* IMPORT_SIGNATURE without the call of allocate_signature_space
ImportSignatureSteps_NoAllocate ==
    << S("check_inputs", ""), S("check_signum_import", ""),
       S("open_input", ""), S("open_output", ""), S("close_input", ""),
       S("open_aux_input", "insig"), S("parse_signature", ""),
       S("get_sigspace_extend_amount", ""), S("check_signature_space", ""),
       S("insert_signature", ""), S("close_aux_input", "insig"),
       S("close_output", "") >>

\* case IMPORT_SIGNATURE
ImportSignatureSteps ==
    << S("check_inputs", ""), S("check_signum_import", ""),
       S("open_input", ""), S("open_output", ""), S("close_input", ""),
       S("open_aux_input", "insig"), S("parse_signature", ""),
       S("get_sigspace_extend_amount", ""),
       S("allocate_signature_space", ""), S("check_signature_space", ""),
       S("insert_signature", ""), S("close_aux_input", "insig"),
       S("close_output", "") >>

\* EXPORT_PUBKEY with the output opened before the certificate is looked up
ExportPubkeySteps_OpenFirst ==
    << S("open_aux_output", "outkey"), S("find_certificate", "1"),
       S("export_pubkey", "") >>

\* case EXPORT_PUBKEY
ExportPubkeySteps ==
    << S("find_certificate", "1"), S("open_aux_output", "outkey"),
       S("export_pubkey", "") >>

\* case EXPORT_CERT
ExportCertSteps ==
    << S("find_certificate", "0"), S("open_aux_output", "outcert"),
       S("export_cert", "") >>

\* case EXPORT_SIGNATURE
ExportSignatureSteps ==
    << S("open_input", ""), S("open_aux_output", "outsig"),
       S("check_signum_export", ""), S("copy_to_newsig", ""),
       S("export_signature", ""), S("close_input", ""),
       S("close_aux_output", "outsig"), S("clear_newsig", "") >>

\* REMOVE_SIGNATURE with the output closed before the entry is removed
RemoveSignatureSteps_CloseEarly ==
    << S("check_inputs", ""), S("open_input", ""), S("open_output", ""),
       S("close_input", ""), S("check_signum_remove", ""),
       S("close_output", ""), S("remove_signature", "") >>

\* REMOVE_SIGNATURE with the output closed before the index is checked
RemoveSignatureSteps_CloseBeforeCheck ==
    << S("check_inputs", ""), S("open_input", ""), S("open_output", ""),
       S("close_input", ""), S("close_output", ""),
       S("check_signum_remove", ""), S("remove_signature", "") >>

\* case REMOVE_SIGNATURE
RemoveSignatureSteps ==
    << S("check_inputs", ""), S("open_input", ""), S("open_output", ""),
       S("close_input", ""), S("check_signum_remove", ""),
       S("remove_signature", ""), S("close_output", "") >>

\* case LIST_SIGNATURES
ListSignaturesSteps ==
    << S("open_input", ""), S("list_signatures", "") >>

\* cases GENERATE_DIGEST|PRINT_DIGEST with and without OMIT_VENDOR_CERT
DigestSteps ==
    << S("open_input", ""), S("generate_digest", "inpe"),
       S("print_digest", "") >>

\* EXPORT_SIGNATURE|GENERATE_SIGNATURE looking the certificate up without
\* requiring its private key
GenerateExportSteps_NoKey ==
    << S("find_certificate", "0"), S("open_input", ""),
       S("open_aux_output", "outsig"), S("generate_digest", "inpe"),
       S("generate_signature", ""), S("export_signature", "") >>

\* case EXPORT_SIGNATURE|GENERATE_SIGNATURE
GenerateExportSteps ==
    << S("find_certificate", "1"), S("open_input", ""),
       S("open_aux_output", "outsig"), S("generate_digest", "inpe"),
       S("generate_signature", ""), S("export_signature", "") >>

\* IMPORT_SIGNATURE|GENERATE_SIGNATURE with the signature generated before
\* its space is allocated
GenerateEmbedSteps_AllocateLate ==
    << S("check_inputs", ""), S("find_certificate", "1"),
       S("check_signum_import", ""),
       S("open_input", ""), S("open_output", ""), S("close_input", ""),
       S("generate_digest", "outpe"), S("calculate_signature_space", ""),
       S("generate_digest", "outpe"), S("generate_signature", ""),
       S("allocate_signature_space", ""), S("insert_signature", ""),
       S("close_output", "") >>

\* case IMPORT_SIGNATURE|GENERATE_SIGNATURE
GenerateEmbedSteps ==
    << S("check_inputs", ""), S("find_certificate", "1"),
       S("check_signum_import", ""),
       S("open_input", ""), S("open_output", ""), S("close_input", ""),
       S("generate_digest", "outpe"), S("calculate_signature_space", ""),
       S("allocate_signature_space", ""), S("generate_digest", "outpe"),
       S("generate_signature", ""), S("insert_signature", ""),
       S("close_output", "") >>

\* default
DefaultSteps == << S("default", "") >>

\* switch (action)
Workflow(a) ==
    CASE a = IMPORT_RAW_SIGNATURE + IMPORT_SATTRS -> ImportRawSteps
      [] a = EXPORT_SATTRS -> ExportSattrsSteps
      [] a = IMPORT_SIGNATURE -> ImportSignatureSteps
      [] a = EXPORT_PUBKEY -> ExportPubkeySteps
      [] a = EXPORT_CERT -> ExportCertSteps
      [] a = EXPORT_SIGNATURE -> ExportSignatureSteps
      [] a = REMOVE_SIGNATURE -> RemoveSignatureSteps
      [] a = LIST_SIGNATURES -> ListSignaturesSteps
      [] a = GENERATE_DIGEST + PRINT_DIGEST + OMIT_VENDOR_CERT -> DigestSteps
      [] a = GENERATE_DIGEST + PRINT_DIGEST -> DigestSteps
      [] a = EXPORT_SIGNATURE + GENERATE_SIGNATURE -> GenerateExportSteps
      [] a = IMPORT_SIGNATURE + GENERATE_SIGNATURE -> GenerateEmbedSteps
      [] OTHER -> DefaultSteps

LegalActions ==
    { IMPORT_RAW_SIGNATURE + IMPORT_SATTRS, EXPORT_SATTRS, IMPORT_SIGNATURE,
      EXPORT_PUBKEY, EXPORT_CERT, EXPORT_SIGNATURE, REMOVE_SIGNATURE,
      LIST_SIGNATURES, GENERATE_DIGEST + PRINT_DIGEST + OMIT_VENDOR_CERT,
      GENERATE_DIGEST + PRINT_DIGEST, EXPORT_SIGNATURE + GENERATE_SIGNATURE,
      IMPORT_SIGNATURE + GENERATE_SIGNATURE }

(***************************************************************************)
(* State.                                                                  *)
(***************************************************************************)
VARIABLES
    action, padding,            \* arguments of pe_handle_action
    infile, outfile, force, signum, outmode,   \* pesign_context
    infd, inpe, outfd, outpe, auxname, auxfd,
    signatures, num_signatures, newsig,        \* cms_context
    digest, sigspace, outspace,
    certdb,                     \* the certificate store
    fs, fs0,                    \* the file system, and as it was at entry
    pc, status, errmsg,         \* position in the case, how the run ended
    listed, stdout,             \* flags named by the diagnostic; printed text
    trace                       \* the calls made so far, in order

args == <<action, padding, infile, outfile, force, auxname, certdb, fs0>>
handles == <<infd, inpe, outfd, outpe, auxfd>>
cms == <<signatures, num_signatures, newsig, digest, sigspace, outspace>>
prints == <<listed, stdout>>
vars == <<args, signum, outmode, handles, cms, fs, pc, status, errmsg,
          prints, trace>>

Ops(a) == { Workflow(a)[i].op : i \in 1..Len(Workflow(a)) }
RolesOf(a) ==
    { Workflow(a)[i].arg : i \in 1..Len(Workflow(a)) } \cap AuxRoles
UsesOutput(a) == "open_output" \in Ops(a)
UsesAuxOut(a) == "open_aux_output" \in Ops(a)
UsesSignum(a) ==
    Ops(a) \cap {"insert_signature", "check_signum_export",
                 "check_signum_remove"} # {}
UsesCert(a) == "find_certificate" \in Ops(a)
UsesPadding(a) == "print_digest" \in Ops(a)

RoleName(r) == IF r \in AuxOutRoles THEN AuxOutPath ELSE AuxInPath

(***************************************************************************)
(* The state at entry to pe_handle_action: a context whose descriptors and *)
(* handles are unbound and whose signature list is empty, the arguments    *)
(* the command line gave, and the files on disk.  Arguments that the       *)
(* chosen case never reads are fixed.                                      *)
(***************************************************************************)
Init ==
    /\ action \in 0..(FLAG_LIST_END - 1)
    /\ padding \in (IF UsesPadding(action) THEN {0, 1} ELSE {0})
    /\ infile \in (IF action \in LegalActions THEN {NULL, "a"} ELSE {"a"})
    /\ outfile \in (IF UsesOutput(action) THEN {NULL, "a", "b"} ELSE {"b"})
    /\ force \in (IF UsesOutput(action) \/ UsesAuxOut(action)
                    THEN {0, 1} ELSE {0})
    /\ signum \in (IF UsesSignum(action) THEN -1..(MaxSigs + 2) ELSE {-1})
    /\ certdb \in (IF UsesCert(action)
                     THEN {"none", "cert", "cert+key"} ELSE {"none"})
    /\ \E unset \in RolesOf(action) \cup {"none"} :
          auxname = [r \in AuxRoles |->
                        IF r = unset THEN NULL ELSE RoleName(r)]
    /\ \E n \in (IF action \in LegalActions THEN 0..MaxSigs ELSE {0}),
          b \in (IF UsesOutput(action) THEN BOOLEAN ELSE {FALSE}),
          x \in (IF UsesAuxOut(action) THEN BOOLEAN ELSE {FALSE}) :
          fs = [p \in Paths |->
                   CASE p = "a" -> InputFile(n)
                     [] p = "b" -> IF b THEN OldFile ELSE NoFile
                     [] OTHER -> IF x THEN OldFile ELSE NoFile]
    /\ fs0 = fs
    /\ outmode = 0
    /\ infd = -1 /\ inpe = NULL /\ outfd = -1 /\ outpe = NULL
    /\ auxfd = [r \in AuxRoles |-> -1]
    /\ signatures = << >> /\ num_signatures = 0 /\ newsig = NoSig
    /\ digest = << >> /\ sigspace = 0 /\ outspace = 0
    /\ pc = 1 /\ status = "running" /\ errmsg = ""
    /\ listed = << >> /\ stdout = << >>
    /\ trace = << >>

(***************************************************************************)
(* Control.                                                                *)
(***************************************************************************)
Cur == Workflow(action)[pc]
At(op) == status = "running" /\ Cur.op = op
\* a call: its name and argument, signum and the count as it is made, and
\* the system calls in it that failed without the code testing their result
Ev(op, arg) ==
    [op |-> op, arg |-> arg, signum |-> signum, count |-> num_signatures,
     io |-> {}]
EvIO(op, arg, failed) == [Ev(op, arg) EXCEPT !.io = failed]
Log(evs) == trace' = trace \o evs
\* the call returns; after the last call of the case, break and return
Continue ==
    /\ pc' = pc + 1
    /\ status' = IF pc = Len(Workflow(action)) THEN "returned" ELSE "running"
    /\ errmsg' = errmsg
\* exit(1) after printing msg
Exit(msg) ==
    /\ pc' = pc
    /\ status' = "fatal"
    /\ errmsg' = msg

(***************************************************************************)
(* check_inputs                                                            *)
(***************************************************************************)
\* check_inputs without the strcmp of the two paths
CheckInputsError_NoCompare ==
    IF infile = NULL THEN "No input file specified."
    ELSE IF outfile = NULL THEN "No output file specified."
    ELSE ""

CheckInputsError ==
    IF infile = NULL THEN "No input file specified."
    ELSE IF outfile = NULL THEN "No output file specified."
    ELSE IF infile = outfile THEN "in-place file editing is not yet supported"
    ELSE ""

CheckInputs ==
    /\ At("check_inputs")
    /\ Log(<<Ev("check_inputs", "")>>)
    /\ IF CheckInputsError # "" THEN Exit(CheckInputsError) ELSE Continue
    /\ UNCHANGED <<args, signum, outmode, handles, cms, fs, prints>>

(***************************************************************************)
(* find_certificate and the rc < 0 test that follows each call             *)
(***************************************************************************)
\* find_certificate(cms, needs_private_key): 0 when found, -1 when not
find_certificate(db, need) ==
    IF db = "none" \/ (need = "1" /\ db = "cert") THEN -1 ELSE 0

FindCertificate ==
    /\ At("find_certificate")
    /\ Log(<<Ev("find_certificate", Cur.arg)>>)
    /\ IF find_certificate(certdb, Cur.arg) < 0
         THEN Exit("Could not find certificate")
         ELSE Continue
    /\ UNCHANGED <<args, signum, outmode, handles, cms, fs, prints>>

(***************************************************************************)
(* default: the incompatible-flags diagnostic                              *)
(***************************************************************************)
RECURSIVE FlagLoop(_, _)
\* for (int i = 1; i < FLAG_LIST_END; i <<= 1) if (action & i) print i
FlagLoop(a, i) ==
    IF i < FLAG_LIST_END
      THEN (IF HasFlag(a, i) THEN <<i>> ELSE << >>) \o FlagLoop(a, 2 * i)
      ELSE << >>

\* the loop started at the second flag
ListedFlags_SkipFirst(a) == FlagLoop(a, 2)

ListedFlags(a) == FlagLoop(a, 1)

Default ==
    /\ At("default")
    /\ Log(<<Ev("default", "")>>)
    /\ listed' = ListedFlags(action)
    /\ Exit("Incompatible flags")
    /\ UNCHANGED <<args, signum, outmode, handles, cms, fs, stdout>>

(***************************************************************************)
(* open_input, close_input                                                 *)
(***************************************************************************)
\* what statbuf.st_mode holds after stat(): the file's mode, or whatever the
\* uninitialised buffer held when stat() failed
StatModes(path, ok) == IF ok THEN {fs[path].mode} ELSE {0, GarbageMode}

\* parse_signatures: the entries of the binary's certificate table, in order
parse_signatures(path) == fs[path].certs

OpenInput ==
    /\ At("open_input")
    /\ IF infile = NULL
         THEN /\ Log(<<Ev("open_input", "")>>)
              /\ Exit("No input file specified.")
              /\ UNCHANGED <<outmode, handles, cms>>
         ELSE \E r \in {"open", "pe_begin", "parse", "ok"}, statok \in BOOLEAN :
                /\ Log(<<EvIO("open_input", "",
                              IF statok THEN {} ELSE {"stat"})>>)
                /\ r # "open" => fs[infile].exists
                /\ outmode' \in StatModes(infile, statok)
                /\ infd' = IF r = "open" THEN -1 ELSE InFd
                /\ inpe' = IF r \in {"open", "pe_begin"} THEN NULL ELSE "inpe"
                /\ IF r = "ok"
                     THEN /\ signatures' = parse_signatures(infile)
                          /\ num_signatures' = Len(parse_signatures(infile))
                          /\ Continue
                     ELSE /\ UNCHANGED <<signatures, num_signatures>>
                          /\ Exit(CASE r = "open" -> "Error opening input"
                                    [] r = "pe_begin" -> "could not load input file"
                                    [] OTHER -> "could not parse signature list")
                /\ UNCHANGED <<outfd, outpe, auxfd, newsig, digest, sigspace,
                               outspace>>
    /\ UNCHANGED <<args, signum, fs, prints>>

CloseInput ==
    /\ At("close_input")
    /\ Log(<<Ev("close_input", "")>>)
    /\ inpe' = NULL
    /\ infd' = -1
    /\ Continue
    /\ UNCHANGED <<args, signum, outmode, outfd, outpe, auxfd, cms, fs, prints>>

(***************************************************************************)
(* open_output, close_output                                               *)
(***************************************************************************)
\* the force test inverted
RefusesOverwrite_Inverted(path) == fs[path].exists /\ force # 0

\* access(path, F_OK) == 0 && ctx->force == 0
RefusesOverwrite(path) == fs[path].exists /\ force = 0

\* open(path, O_RDWR|O_CREAT|O_TRUNC|O_CLOEXEC, mode): the file is created
\* with the given mode, or truncated keeping its mode
Truncated(path, mode) ==
    File(<< >>, << >>, IF fs[path].exists THEN fs[path].mode ELSE mode, FALSE)

\* the image after ftruncate(size) and write(addr, size): ftruncate sizes the
\* file only when it succeeds, and write stores the first k bytes
Copied(src, ftok, k) ==
    [i \in 1..(IF ftok THEN Len(src) ELSE k) |-> IF i <= k THEN src[i] ELSE 0]

OpenOutput ==
    /\ At("open_output")
    /\ IF outfile = NULL
         THEN /\ Log(<<Ev("open_output", "")>>)
              /\ Exit("No output file specified.")
              /\ UNCHANGED <<outfd, outpe, fs, outspace>>
         ELSE IF RefusesOverwrite(outfile)
         THEN /\ Log(<<Ev("open_output", "")>>)
              /\ Exit("exists and --force was not given.")
              /\ UNCHANGED <<outfd, outpe, fs, outspace>>
         ELSE \/ /\ Log(<<Ev("open_output", "")>>)
                 /\ Exit("Error opening output")
                 /\ UNCHANGED <<outfd, outpe, fs, outspace>>
              \/ \E ftok \in BOOLEAN, k \in 0..Len(fs[infile].raw),
                    loaded \in BOOLEAN :
                   LET src == fs[infile].raw
                       img == Copied(src, ftok, k)
                       t == Truncated(outfile, outmode)
                   IN  \* pe_begin needs the headers at the start of the image
                       /\ loaded => (k >= 1)
                       /\ Log(<<EvIO("open_output", "",
                                  (IF ftok THEN {} ELSE {"ftruncate"}) \cup
                                  (IF k = Len(src) THEN {} ELSE {"write"}))>>)
                       /\ outfd' = OutFd
                       /\ IF loaded
                            THEN /\ outpe' = "outpe"
                                 \* pe_clearcert
                                 /\ fs' = [fs EXCEPT ![outfile] =
                                              [t EXCEPT !.raw = img,
                                                        !.certs = << >>]]
                                 /\ outspace' = 0
                                 /\ Continue
                            ELSE /\ outpe' = NULL
                                 /\ fs' = [fs EXCEPT ![outfile] =
                                              [t EXCEPT !.raw = img,
                                                 !.certs = IF k = Len(src)
                                                    THEN fs[infile].certs
                                                    ELSE << >>]]
                                 /\ UNCHANGED outspace
                                 /\ Exit("could not load output file")
    /\ UNCHANGED <<args, signum, outmode, infd, inpe, auxfd, signatures,
                   num_signatures, newsig, digest, sigspace, prints>>

\* finalize_signatures(sigs, num, pe): the table the entries serialize to
finalize_signatures(sigs, num) == SubSeq(sigs, 1, num)

CloseOutput ==
    /\ At("close_output")
    /\ \E updok \in BOOLEAN :
          /\ Log(<<Ev("finalize_signatures", ""),
                   EvIO("pe_update", "", IF updok THEN {} ELSE {"pe_update"}),
                   Ev("pe_end", ""), Ev("close", "outfd")>>)
          /\ fs' = [fs EXCEPT ![outfile] =
                    IF updok
                      THEN [@ EXCEPT !.certs =
                              finalize_signatures(signatures, num_signatures),
                                     !.final = TRUE]
                      ELSE @]
    /\ outpe' = NULL
    /\ outfd' = -1
    /\ Continue
    /\ UNCHANGED <<args, signum, outmode, infd, inpe, auxfd, cms, prints>>

(***************************************************************************)
(* define_input_file, define_output_file: the auxiliary files              *)
(***************************************************************************)
OpenAuxInput ==
    /\ At("open_aux_input")
    /\ Log(<<Ev("open_aux_input", Cur.arg)>>)
    /\ IF auxname[Cur.arg] = NULL
         THEN /\ Exit("No input file specified for")
              /\ UNCHANGED auxfd
         ELSE \/ /\ Exit("Error opening file for input")
                 /\ UNCHANGED auxfd
              \/ /\ auxfd' = [auxfd EXCEPT ![Cur.arg] = AuxFd]
                 /\ Continue
    /\ UNCHANGED <<args, signum, outmode, infd, inpe, outfd, outpe, cms, fs,
                   prints>>

CloseAuxInput ==
    /\ At("close_aux_input")
    /\ Log(<<Ev("close_aux_input", Cur.arg)>>)
    /\ auxfd' = [auxfd EXCEPT ![Cur.arg] = -1]
    /\ Continue
    /\ UNCHANGED <<args, signum, outmode, infd, inpe, outfd, outpe, cms, fs,
                   prints>>

OpenAuxOutput ==
    /\ At("open_aux_output")
    /\ Log(<<Ev("open_aux_output", Cur.arg)>>)
    /\ LET name == auxname[Cur.arg]
       IN  IF name = NULL
             THEN /\ Exit("No output file specified for")
                  /\ UNCHANGED <<auxfd, fs>>
             ELSE IF RefusesOverwrite(name)
             THEN /\ Exit("exists and --force was not given.")
                  /\ UNCHANGED <<auxfd, fs>>
             ELSE \/ /\ Exit("Error opening file for output")
                     /\ UNCHANGED <<auxfd, fs>>
                  \/ /\ auxfd' = [auxfd EXCEPT ![Cur.arg] = AuxFd]
                     /\ fs' = [fs EXCEPT ![name] =
                                  [Truncated(name, outmode)
                                      EXCEPT !.final = TRUE]]
                     /\ Continue
    /\ UNCHANGED <<args, signum, outmode, infd, inpe, outfd, outpe, cms,
                   prints>>

CloseAuxOutput ==
    /\ At("close_aux_output")
    /\ Log(<<Ev("close_aux_output", Cur.arg)>>)
    /\ auxfd' = [auxfd EXCEPT ![Cur.arg] = -1]
    /\ Continue
    /\ UNCHANGED <<args, signum, outmode, infd, inpe, outfd, outpe, cms, fs,
                   prints>>

(***************************************************************************)
(* The index checks of the cases                                           *)
(***************************************************************************)
\* if (ctxp->signum > ctxp->cms_ctx->num_signatures + 1)
ImportSignumInvalid(sn, num) == sn > num + 1

CheckSignumImport ==
    /\ At("check_signum_import")
    /\ Log(<<Ev("check_signum_import", "")>>)
    /\ IF ImportSignumInvalid(signum, num_signatures)
         THEN Exit("Invalid signature number.")
         ELSE Continue
    /\ UNCHANGED <<args, signum, outmode, handles, cms, fs, prints>>

\* the index left as it was given
ClampSignum_None(sn) == sn

\* if (ctxp->signum < 0) ctxp->signum = 0;
ClampSignum(sn) == IF sn < 0 THEN 0 ELSE sn

CheckSignumExport ==
    /\ At("check_signum_export")
    /\ Log(<<Ev("check_signum_export", "")>>)
    /\ IF signum > num_signatures
         THEN /\ Exit("Invalid signature number.")
              /\ UNCHANGED signum
         ELSE /\ signum' = ClampSignum(signum)
              /\ IF signum' >= num_signatures
                   THEN Exit("No valid signature #")
                   ELSE Continue
    /\ UNCHANGED <<args, outmode, handles, cms, fs, prints>>

\* the range check without its lower bound
RemoveSignumInvalid_NoLower(sn, num) == sn >= num

\* if (ctxp->signum < 0 || ctxp->signum >= ctxp->cms_ctx->num_signatures)
RemoveSignumInvalid(sn, num) == sn < 0 \/ sn >= num

CheckSignumRemove ==
    /\ At("check_signum_remove")
    /\ Log(<<Ev("check_signum_remove", "")>>)
    /\ IF RemoveSignumInvalid(signum, num_signatures)
         THEN Exit("Invalid signature number. Must be between 0 and")
         ELSE Continue
    /\ UNCHANGED <<args, signum, outmode, handles, cms, fs, prints>>

(***************************************************************************)
(* The staging slot                                                        *)
(***************************************************************************)
\* memcpy(&newsig, signatures[signum], sizeof newsig)
CopyToNewsig ==
    /\ At("copy_to_newsig")
    /\ Log(<<Ev("copy_to_newsig", "")>>)
    /\ newsig' = signatures[signum + 1]
    /\ Continue
    /\ UNCHANGED <<args, signum, outmode, handles, signatures, num_signatures,
                   digest, sigspace, outspace, fs, prints>>

\* memset(&newsig, 0, sizeof newsig)
ClearNewsig ==
    /\ At("clear_newsig")
    /\ Log(<<Ev("clear_newsig", "")>>)
    /\ newsig' = NoSig
    /\ Continue
    /\ UNCHANGED <<args, signum, outmode, handles, signatures, num_signatures,
                   digest, sigspace, outspace, fs, prints>>

(***************************************************************************)
(* The signature table (collaborator)                                      *)
(***************************************************************************)
RemoveAt(sigs, i) == SubSeq(sigs, 1, i) \o SubSeq(sigs, i + 2, Len(sigs))

RemoveSignature ==
    /\ At("remove_signature")
    /\ Log(<<Ev("remove_signature", "")>>)
    /\ signatures' = RemoveAt(signatures, signum)
    /\ num_signatures' = num_signatures - 1
    /\ Continue
    /\ UNCHANGED <<args, signum, outmode, handles, newsig, digest, sigspace,
                   outspace, fs, prints>>

\* insert(index, entry): append when index is the count, replace the entry
\* at an existing index
InsertAt(sigs, i, e) ==
    IF i = Len(sigs) THEN Append(sigs, e) ELSE [sigs EXCEPT ![i + 1] = e]

\* An index outside [0, count] makes insert_signature address memory outside
\* the list: the run may crash, or go on with the entry stored past the end.
InsertSignature ==
    /\ At("insert_signature")
    /\ Log(<<Ev("insert_signature", "")>>)
    /\ IF 0 <= signum /\ signum <= num_signatures
         THEN /\ signatures' = InsertAt(signatures, signum, newsig)
              /\ num_signatures' = Len(signatures')
              /\ Continue
         ELSE \/ /\ pc' = pc /\ status' = "crashed" /\ errmsg' = errmsg
                 /\ UNCHANGED <<signatures, num_signatures>>
              \/ /\ signatures' = Append(signatures, newsig)
                 /\ num_signatures' = num_signatures + 1
                 /\ Continue
    /\ UNCHANGED <<args, signum, outmode, handles, newsig, digest, sigspace,
                   outspace, fs, prints>>

ListSignatures ==
    /\ At("list_signatures")
    /\ Log(<<Ev("list_signatures", "")>>)
    /\ stdout' = stdout \o signatures
    /\ Continue
    /\ UNCHANGED <<args, signum, outmode, handles, cms, fs, listed>>

(***************************************************************************)
(* Digest, signature and space (collaborator)                              *)
(***************************************************************************)
RECURSIVE SumSeq(_)
SumSeq(q) == IF q = << >> THEN 0 ELSE Head(q) + SumSeq(Tail(q))

\* a digest of the image outside the certificate table
DigestOf(raw, pad) ==
    [i \in 1..DigestLen |-> (85 * SumSeq(raw) + 7 * i + 101 * pad) % 256]

\* the bytes an entry occupies in the certificate table
SigSize(s) == 8 * (1 + (s % 3))
RECURSIVE TableSize(_)
TableSize(sigs) ==
    IF sigs = << >> THEN 0 ELSE SigSize(Head(sigs)) + TableSize(Tail(sigs))

GenerateDigest ==
    /\ At("generate_digest")
    /\ Log(<<Ev("generate_digest", Cur.arg)>>)
    /\ digest' = DigestOf(fs[IF Cur.arg = "inpe" THEN infile ELSE outfile].raw,
                          IF UsesPadding(action) THEN padding ELSE 1)
    /\ Continue
    /\ UNCHANGED <<args, signum, outmode, handles, signatures, num_signatures,
                   newsig, sigspace, outspace, fs, prints>>

CalculateSignatureSpace ==
    /\ At("calculate_signature_space")
    /\ Log(<<Ev("calculate_signature_space", "")>>)
    /\ sigspace' = TableSize(signatures) + SigSize(GeneratedSig) - outspace
    /\ Continue
    /\ UNCHANGED <<args, signum, outmode, handles, signatures, num_signatures,
                   newsig, digest, outspace, fs, prints>>

GetSigspaceExtendAmount ==
    /\ At("get_sigspace_extend_amount")
    /\ Log(<<Ev("get_sigspace_extend_amount", "")>>)
    /\ sigspace' = TableSize(signatures) + SigSize(newsig) - outspace
    /\ Continue
    /\ UNCHANGED <<args, signum, outmode, handles, signatures, num_signatures,
                   newsig, digest, outspace, fs, prints>>

AllocateSignatureSpace ==
    /\ At("allocate_signature_space")
    /\ Log(<<Ev("allocate_signature_space", "")>>)
    /\ outspace' = outspace + sigspace
    /\ Continue
    /\ UNCHANGED <<args, signum, outmode, handles, signatures, num_signatures,
                   newsig, digest, sigspace, fs, prints>>

CheckSignatureSpace ==
    /\ At("check_signature_space")
    /\ Log(<<Ev("check_signature_space", "")>>)
    /\ IF outspace < TableSize(signatures) + SigSize(newsig)
         THEN Exit("signature does not fit in the allocated space")
         ELSE Continue
    /\ UNCHANGED <<args, signum, outmode, handles, cms, fs, prints>>

GenerateSignature ==
    /\ At("generate_signature")
    /\ Log(<<Ev("generate_signature", "")>>)
    /\ newsig' = GeneratedSig
    /\ Continue
    /\ UNCHANGED <<args, signum, outmode, handles, signatures, num_signatures,
                   digest, sigspace, outspace, fs, prints>>

ParseSignature ==
    /\ At("parse_signature")
    /\ Log(<<Ev("parse_signature", "")>>)
    /\ newsig' = ImportedSig
    /\ Continue
    /\ UNCHANGED <<args, signum, outmode, handles, signatures, num_signatures,
                   digest, sigspace, outspace, fs, prints>>

ImportRawSignature ==
    /\ At("import_raw_signature")
    /\ Log(<<Ev("import_raw_signature", "")>>)
    /\ Continue
    /\ UNCHANGED <<args, signum, outmode, handles, cms, fs, prints>>

(***************************************************************************)
(* Writers of the auxiliary outputs (collaborator)                         *)
(***************************************************************************)
\* the bytes each writer stores in the file behind its descriptor
Written(op) ==
    CASE op = "export_signature" -> <<newsig>>
      [] op = "generate_sattr_blob" -> digest
      [] op = "export_pubkey" -> <<200>>
      [] OTHER -> <<201>>

WriterRole(op) ==
    CASE op = "export_signature" -> "outsig"
      [] op = "generate_sattr_blob" -> "outsattrs"
      [] op = "export_pubkey" -> "outkey"
      [] OTHER -> "outcert"

WriteAux ==
    /\ status = "running"
    /\ Cur.op \in {"export_signature", "generate_sattr_blob", "export_pubkey",
                   "export_cert"}
    /\ Log(<<Ev(Cur.op, "")>>)
    /\ fs' = [fs EXCEPT ![auxname[WriterRole(Cur.op)]].raw = Written(Cur.op)]
    /\ Continue
    /\ UNCHANGED <<args, signum, outmode, handles, cms, prints>>

(***************************************************************************)
(* print_digest                                                            *)
(***************************************************************************)
HexDigit(n) == SubSeq("0123456789abcdef", n + 1, n + 1)

RECURSIVE HexLoop_NoPad(_, _)
\* the loop printing each byte with "%x": no leading zero
HexLoop_NoPad(d, i) ==
    IF i <= Len(d)
      THEN (IF d[i] % 256 < 16
              THEN <<HexDigit(d[i] % 16)>>
              ELSE <<HexDigit((d[i] % 256) \div 16), HexDigit(d[i] % 16)>>)
           \o HexLoop_NoPad(d, i + 1)
      ELSE << >>

RECURSIVE HexLoop(_, _)
\* for (i = 0; i < len; i++) printf("%02x", (unsigned char)data[i])
HexLoop(d, i) ==
    IF i <= Len(d)
      THEN <<HexDigit((d[i] % 256) \div 16), HexDigit(d[i] % 16)>>
           \o HexLoop(d, i + 1)
      ELSE << >>

PrintDigest ==
    /\ At("print_digest")
    /\ Log(<<Ev("print_digest", "")>>)
    /\ stdout' = stdout \o <<infile, " ">> \o HexLoop(digest, 1) \o <<"\n">>
    /\ Continue
    /\ UNCHANGED <<args, signum, outmode, handles, cms, fs, listed>>

(***************************************************************************)
(* pe_handle_action                                                        *)
(***************************************************************************)
Next ==
    \/ CheckInputs
    \/ FindCertificate
    \/ OpenAuxInput
    \/ CloseAuxInput
    \/ OpenAuxOutput
    \/ CloseAuxOutput
    \/ OpenInput
    \/ CloseInput
    \/ OpenOutput
    \/ CloseOutput
    \/ CheckSignumImport
    \/ CheckSignumExport
    \/ CheckSignumRemove
    \/ CopyToNewsig
    \/ ClearNewsig
    \/ RemoveSignature
    \/ InsertSignature
    \/ ListSignatures
    \/ GenerateDigest
    \/ CalculateSignatureSpace
    \/ GetSigspaceExtendAmount
    \/ AllocateSignatureSpace
    \/ CheckSignatureSpace
    \/ GenerateSignature
    \/ ParseSignature
    \/ ImportRawSignature
    \/ WriteAux
    \/ PrintDigest
    \/ Default

Spec == Init /\ [][Next]_vars

(***************************************************************************)
(* Properties.                                                             *)
(***************************************************************************)
OpAt(i) == trace[i].op
Called(op) == \E i \in 1..Len(trace) : OpAt(i) = op
LastOp == IF trace = << >> THEN "" ELSE OpAt(Len(trace))
OpenOps == {"open_input", "open_output", "open_aux_input", "open_aux_output"}
Unbound ==
    /\ infd = -1 /\ inpe = NULL /\ outfd = -1 /\ outpe = NULL
    /\ \A r \in AuxRoles : auxfd[r] = -1
\* no file has been opened, created, truncated or written
NothingOpened ==
    /\ \A i \in 1..Len(trace) : OpAt(i) \notin OpenOps
    /\ Unbound
    /\ fs = fs0
WritesOutput ==
    action \in { IMPORT_RAW_SIGNATURE + IMPORT_SATTRS, IMPORT_SIGNATURE,
                 REMOVE_SIGNATURE, IMPORT_SIGNATURE + GENERATE_SIGNATURE }

\* C1: in the four workflows that write the output binary, a run whose input
\* and output paths are the same string, or whose input or output path is
\* unset, ends in check_inputs' fatal error as its first and only step, with
\* no file opened, created or truncated.
C1_InPlaceRefused ==
    (WritesOutput /\ (infile = NULL \/ outfile = NULL \/ infile = outfile))
    => /\ NothingOpened
       /\ \/ status = "running" /\ trace = << >>
          \/ /\ status = "fatal"
             /\ Len(trace) = 1 /\ LastOp = "check_inputs"
             /\ errmsg = (IF infile = NULL THEN "No input file specified."
                          ELSE IF outfile = NULL
                          THEN "No output file specified."
                          ELSE "in-place file editing is not yet supported")

C1_Witness ==
    /\ WritesOutput /\ infile # NULL /\ infile = outfile
    /\ status = "fatal" /\ LastOp = "check_inputs"

\* the path an open of an output was given
OutTarget(e) == IF e.op = "open_output" THEN outfile ELSE auxname[e.arg]

\* C2: an open of the output binary or of an auxiliary output whose path
\* names an existing file while force is not set is the last step of the
\* run: it fails fatally and leaves the file as it was; a file differs from
\* what it was at entry only if it did not exist or force is set.
C2_NoClobber ==
    /\ \A i \in 1..Len(trace) :
          (/\ OpAt(i) \in {"open_output", "open_aux_output"}
           /\ OutTarget(trace[i]) # NULL
           /\ fs0[OutTarget(trace[i])].exists
           /\ force = 0)
          => /\ i = Len(trace)
             /\ status = "fatal"
             /\ errmsg = "exists and --force was not given."
             /\ fs[OutTarget(trace[i])] = fs0[OutTarget(trace[i])]
             /\ outfd = -1 /\ \A r \in AuxOutRoles : auxfd[r] = -1
    /\ \A p \in Paths :
          fs[p] # fs0[p] => (~fs0[p].exists \/ force # 0)

C2_Witness ==
    /\ LastOp = "open_output" /\ fs0[outfile].exists /\ force = 0
    /\ status = "fatal" /\ fs = fs0

\* C3: when open_output has returned normally the output file's raw content
\* equals the input's raw content, byte for byte and in length, and the
\* output's certificate table is empty.
C3_CompleteCopy ==
    (LastOp = "open_output" /\ status = "running")
    => /\ fs[outfile].raw = fs0[infile].raw
       /\ fs[outfile].certs = << >>

\* C4 as stated: on remove-signature and export-signature every signum that
\* is negative or >= count fails with an index-range fatal error and leaves
\* the in-memory table unchanged.
C4_Original ==
    \A i \in 1..Len(trace) :
       (/\ OpAt(i) \in {"check_signum_remove", "check_signum_export"}
        /\ (trace[i].signum < 0 \/ trace[i].signum >= trace[i].count))
       => /\ i = Len(trace) /\ status = "fatal"
          /\ signatures = fs0[infile].certs

\* C4 as amended: remove-signature fails so for every signum that is
\* negative or >= count, export-signature for every signum >= count; a
\* negative signum on export-signature is taken as 0, so it fails exactly
\* when the table is empty.  In each failure the in-memory table is the
\* table parsed from the input, and a valid index passes the check.
C4_IndexRange ==
    \A i \in 1..Len(trace) :
       LET sn == trace[i].signum
           n == trace[i].count
           bad == IF OpAt(i) = "check_signum_remove"
                    THEN sn < 0 \/ sn >= n
                    ELSE sn >= n \/ (sn < 0 /\ n = 0)
       IN  OpAt(i) \in {"check_signum_remove", "check_signum_export"}
           => /\ n = Len(fs0[infile].certs)
              /\ IF bad
                   THEN /\ i = Len(trace) /\ status = "fatal"
                        /\ errmsg \in
                             {"Invalid signature number.",
                              "No valid signature #",
                              "Invalid signature number. Must be between 0 and"}
                        /\ signatures = fs0[infile].certs
                        /\ num_signatures = n
                   ELSE /\ ~(i = Len(trace) /\ status = "fatal")
                        /\ (OpAt(i) = "check_signum_export" /\ sn < 0)
                              => signum = 0

C4_Witness ==
    /\ LastOp = "check_signum_export" /\ status = "fatal"
    /\ signum >= num_signatures /\ num_signatures >= 1
    /\ signatures = fs0[infile].certs

\* C5: insert_signature is only ever called with 0 <= signum <= count, the
\* count being that of the table at the call.
C5_InsertInRange ==
    \A i \in 1..Len(trace) :
       OpAt(i) = "insert_signature"
       => (0 <= trace[i].signum /\ trace[i].signum <= trace[i].count)

\* C6: in import-signature and generate-and-embed the index check lets the
\* run pass exactly when signum <= (signature count of the input binary) + 1.
C6_CheckAgainstInput ==
    \A i \in 1..Len(trace) :
       OpAt(i) = "check_signum_import"
       => ((i = Len(trace) /\ status = "fatal")
             <=> ~(trace[i].signum <= Len(fs0[infile].certs) + 1))

Count(op) == Cardinality({i \in 1..Len(trace) : OpAt(i) = op})
TableOps ==
    {"insert_signature", "remove_signature", "allocate_signature_space"}

\* C7: a run that opened the output binary and returned executed
\* finalize_signatures exactly once, with pe_update right after it and every
\* insert, remove and allocate before it; a run that has not opened the
\* output binary has executed no finalize.
C7_FinalizeOnceLast ==
    /\ (status = "returned" /\ Called("open_output"))
       => /\ Count("finalize_signatures") = 1
          /\ Count("pe_update") = 1
          /\ \A f \in 1..Len(trace) :
                OpAt(f) = "finalize_signatures"
                => /\ f < Len(trace) /\ OpAt(f + 1) = "pe_update"
                   /\ \A j \in 1..Len(trace) :
                         OpAt(j) \in TableOps => j < f
    /\ ~Called("open_output")
       => (~Called("finalize_signatures") /\ ~Called("pe_update"))

C7_Witness ==
    /\ status = "returned" /\ action = REMOVE_SIGNATURE
    /\ Called("remove_signature") /\ LastOp = "close"

Before(opsA, i) == \E j \in 1..(i - 1) : OpAt(j) \in opsA
Embeds ==
    action \in { IMPORT_RAW_SIGNATURE + IMPORT_SATTRS, IMPORT_SIGNATURE,
                 IMPORT_SIGNATURE + GENERATE_SIGNATURE }

\* C8: in the three embedding workflows a digest precedes
\* calculate_signature_space, the size computation immediately precedes
\* allocate_signature_space, allocation precedes generate_signature,
\* check_signature_space and insert_signature, and insert precedes finalize;
\* in generate-and-embed a digest is taken between allocation and
\* generate_signature.
C8_EmbedOrder ==
    Embeds =>
    \A i \in 1..Len(trace) :
       /\ OpAt(i) = "calculate_signature_space"
             => /\ i > 1 /\ OpAt(i - 1) = "generate_digest"
                /\ trace[i - 1].arg = "outpe"
       /\ OpAt(i) = "allocate_signature_space"
             => (i > 1 /\ OpAt(i - 1) \in {"calculate_signature_space",
                                           "get_sigspace_extend_amount"})
       /\ OpAt(i) \in {"generate_signature", "check_signature_space",
                       "insert_signature"}
             => Before({"allocate_signature_space"}, i)
       /\ OpAt(i) = "finalize_signatures"
             => Before({"insert_signature"}, i)
       /\ (OpAt(i) = "generate_signature"
           /\ action = IMPORT_SIGNATURE + GENERATE_SIGNATURE)
             => \E d \in 1..(i - 1) :
                   /\ OpAt(d) = "generate_digest"
                   /\ Before({"allocate_signature_space"}, d)

C8_Witness ==
    /\ action = IMPORT_SIGNATURE + GENERATE_SIGNATURE
    /\ status = "returned" /\ Called("insert_signature")

SeqToSet(q) == {q[i] : i \in 1..Len(q)}

\* C9: an action that is none of the twelve legal combinations ends in the
\* fatal incompatible-flags error as its only step, with no file opened,
\* created or modified and the signature table as it was, and the
\* diagnostic names exactly the flags set in the action, each once.
C9_IllegalAction ==
    action \notin LegalActions
    => /\ NothingOpened
       /\ signatures = << >> /\ num_signatures = 0
       /\ \/ status = "running" /\ trace = << >>
          \/ /\ status = "fatal" /\ errmsg = "Incompatible flags"
             /\ Len(trace) = 1
             /\ SeqToSet(listed) = {f \in Flags : HasFlag(action, f)}
             /\ Len(listed) = Cardinality(SeqToSet(listed))

C9_Witness ==
    /\ action = EXPORT_SIGNATURE + REMOVE_SIGNATURE + OMIT_VENDOR_CERT
    /\ status = "fatal"
    /\ listed = <<EXPORT_SIGNATURE, REMOVE_SIGNATURE, OMIT_VENDOR_CERT>>

NeedsCertificate ==
    action \in { EXPORT_PUBKEY, EXPORT_CERT,
                 EXPORT_SIGNATURE + GENERATE_SIGNATURE,
                 IMPORT_SIGNATURE + GENERATE_SIGNATURE,
                 IMPORT_RAW_SIGNATURE + IMPORT_SATTRS }

\* C10: in the five workflows that need a certificate no file is opened
\* before find_certificate has been called, and a find_certificate that
\* reports not-found is the last step of the run: the run ends in the fatal
\* could-not-find-certificate error with no file opened or created.
C10_CertBeforeFiles ==
    NeedsCertificate =>
    /\ \A j \in 1..Len(trace) :
          OpAt(j) \in OpenOps => Before({"find_certificate"}, j)
    /\ status = "returned" => Called("find_certificate")
    /\ \A i \in 1..Len(trace) :
          (OpAt(i) = "find_certificate"
           /\ find_certificate(certdb, trace[i].arg) < 0)
          => /\ i = Len(trace) /\ status = "fatal"
             /\ errmsg = "Could not find certificate"
             /\ NothingOpened

C10_Witness ==
    /\ action = EXPORT_PUBKEY /\ certdb = "none"
    /\ status = "fatal" /\ errmsg = "Could not find certificate"


\* C11 as stated: every generate_signature, and every export_pubkey, is
\* preceded by a find_certificate that requires the private key, and every
\* export_cert by one that does not.
C11_Original ==
    \A i \in 1..Len(trace) :
       /\ OpAt(i) \in {"generate_signature", "export_pubkey"}
             => \E j \in 1..(i - 1) :
                   OpAt(j) = "find_certificate" /\ trace[j].arg = "1"
       /\ OpAt(i) = "export_cert"
             => \E j \in 1..(i - 1) :
                   OpAt(j) = "find_certificate" /\ trace[j].arg = "0"

\* C11 as amended: generate-and-export, generate-and-embed and
\* export-public-key call find_certificate requiring the private key before
\* they generate or export anything, so with a certificate that has no key
\* these runs end at find_certificate; import-raw-signature+attributes and
\* export-certificate look the certificate up without requiring the key.
C11_KeyRequired ==
    \A i \in 1..Len(trace) :
       /\ OpAt(i) = "find_certificate"
             => (trace[i].arg = "1"
                   <=> action \in { EXPORT_PUBKEY,
                                    EXPORT_SIGNATURE + GENERATE_SIGNATURE,
                                    IMPORT_SIGNATURE + GENERATE_SIGNATURE })
       /\ OpAt(i) \in {"generate_signature", "export_pubkey", "export_cert"}
             => Before({"find_certificate"}, i)
       /\ (OpAt(i) \in {"generate_signature", "export_pubkey"}
           /\ action # IMPORT_RAW_SIGNATURE + IMPORT_SATTRS)
             => certdb = "cert+key"
       /\ (OpAt(i) = "generate_signature"
           /\ action = IMPORT_RAW_SIGNATURE + IMPORT_SATTRS)
             => certdb \in {"cert", "cert+key"}

C11_Witness ==
    /\ action = IMPORT_RAW_SIGNATURE + IMPORT_SATTRS
    /\ certdb = "cert"
    /\ Called("generate_signature")


\* C13: a failing I/O step on the input or output binary (open, stat,
\* truncate, the copy into the output, the structural load, the commit) ends
\* the run in a fatal error at that step, so a run that returned had none.
C13_IOFailureFatal ==
    /\ \A i \in 1..Len(trace) :
          trace[i].io # {} => (i = Len(trace) /\ status = "fatal")
    /\ (status = "fatal"
        /\ errmsg \in {"Error opening input", "could not load input file",
                       "Error opening output", "could not load output file"})
          => LastOp \in {"open_input", "open_output"}


\* C12: for an input table of count entries and 0 <= signum < count, a
\* completed export-signature has written exactly the bytes of entry signum,
\* and a completed remove-signature has produced an output whose table is the
\* original one without entry signum, the others in order and unchanged.
C12_RoundTrip ==
    /\ (action = EXPORT_SIGNATURE /\ status = "returned")
          => /\ 0 <= signum /\ signum < Len(fs0[infile].certs)
             /\ fs[auxname["outsig"]].raw = <<fs0[infile].certs[signum + 1]>>
    /\ (action = REMOVE_SIGNATURE /\ status = "returned")
          => /\ 0 <= signum /\ signum < Len(fs0[infile].certs)
             /\ fs[outfile].certs = RemoveAt(fs0[infile].certs, signum)
             /\ Len(fs[outfile].certs) = Len(fs0[infile].certs) - 1


\* the sixteen lowercase hexadecimal digits and the value each stands for
LowerHexDigits ==
    <<"0", "1", "2", "3", "4", "5", "6", "7", "8", "9",
      "a", "b", "c", "d", "e", "f">>
HexVal(c) == (CHOOSE n \in 1..16 : LowerHexDigits[n] = c) - 1
DigestActions ==
    {GENERATE_DIGEST + PRINT_DIGEST,
     GENERATE_DIGEST + PRINT_DIGEST + OMIT_VENDOR_CERT}

\* C14: a digest-only action prints the input path, one space, two lowercase
\* hexadecimal digits for each byte of the digest of the input under the
\* padding flag, and a newline, and nothing else; the line is a function of
\* the path, the input's bytes and the padding flag alone.
C14_DigestLine ==
    action \in DigestActions =>
       IF Called("print_digest")
         THEN LET d == DigestOf(fs0[infile].raw, padding)
                  hex == SubSeq(stdout, 3, Len(stdout) - 1)
              IN  /\ digest = d
                  /\ Len(stdout) = 2 * Len(d) + 3
                  /\ stdout[1] = infile
                  /\ stdout[2] = " "
                  /\ stdout[Len(stdout)] = "\n"
                  /\ Len(hex) = 2 * Len(d)
                  /\ \A k \in 1..Len(hex) : hex[k] \in SeqToSet(LowerHexDigits)
                  /\ \A i \in 1..Len(d) :
                        16 * HexVal(hex[2 * i - 1]) + HexVal(hex[2 * i]) = d[i]
         ELSE stdout = << >>

\* a digest whose first byte is below 16 has been printed, by the action
\* with the omit-vendor-certificate flag
C14_Witness ==
    /\ action = GENERATE_DIGEST + PRINT_DIGEST + OMIT_VENDOR_CERT
    /\ status = "returned"
    /\ Called("print_digest")
    /\ \E i \in 1..Len(digest) : digest[i] < 16
    /\ \E i \in 1..Len(digest) : digest[i] % 16 >= 10


\* C15: export-signature treats a negative signum as 0: with at least one
\* entry the index check then passes and entry 0 is exported; the entry
\* copied into the staging slot and written is the one at the given index (0
\* for a negative one), and no entry outside [0, count) is ever read.
C15_ExportClamp ==
    (action = EXPORT_SIGNATURE /\ trace # << >>) =>
       LET given == trace[1].signum
           index == IF given < 0 THEN 0 ELSE given
           table == fs0[infile].certs
       IN  /\ \A i \in 1..Len(trace) :
                /\ (OpAt(i) = "check_signum_export" /\ trace[i].signum < 0
                    /\ trace[i].count >= 1)
                      => /\ ~(i = Len(trace) /\ status = "fatal")
                         /\ i = Len(trace) => signum = 0
                /\ OpAt(i) = "check_signum_export" => trace[i].signum = given
                /\ OpAt(i) = "copy_to_newsig"
                      => /\ trace[i].signum = index
                         /\ 0 <= trace[i].signum
                         /\ trace[i].signum < trace[i].count
                         /\ trace[i].count = Len(table)
                         /\ Before({"check_signum_export"}, i)
                /\ OpAt(i) = "export_signature"
                      => /\ Before({"copy_to_newsig"}, i)
                         /\ i = Len(trace) =>
                               fs[auxname["outsig"]].raw = <<table[index + 1]>>
           /\ (LastOp = "check_signum_export" /\ status = "running")
                 => (0 <= signum /\ signum < num_signatures)
           /\ (LastOp = "copy_to_newsig") => newsig = table[index + 1]
           /\ status = "returned"
                 => /\ index < Len(table)
                    /\ fs[auxname["outsig"]].raw = <<table[index + 1]>>

\* a negative index was given and entry 0 of a two-entry table was exported
C15_Witness ==
    /\ action = EXPORT_SIGNATURE
    /\ status = "returned"
    /\ trace[1].signum < 0
    /\ Len(fs0[infile].certs) = 2
    /\ fs[auxname["outsig"]].raw = <<fs0[infile].certs[1]>>


\* the actions that place a signature in the staging slot
StagingActions ==
    {EXPORT_SIGNATURE, EXPORT_SIGNATURE + GENERATE_SIGNATURE,
     IMPORT_SIGNATURE + GENERATE_SIGNATURE, IMPORT_SIGNATURE,
     IMPORT_RAW_SIGNATURE + IMPORT_SATTRS}

\* C16: when an action that places a signature in the staging slot completes
\* normally, the slot is empty at the return of pe_handle_action.
C16_StagingCleared ==
    (action \in StagingActions /\ status = "returned") => newsig = NoSig


\* C17: when a legal action completes normally, every descriptor and handle
\* it opened (input binary, output binary, auxiliary files) is closed and
\* back in its unbound state.
C17_AllClosed ==
    (action \in LegalActions /\ status = "returned") => Unbound


ReadOnlyActions ==
    {LIST_SIGNATURES, GENERATE_DIGEST + PRINT_DIGEST,
     GENERATE_DIGEST + PRINT_DIGEST + OMIT_VENDOR_CERT, EXPORT_SATTRS,
     EXPORT_SIGNATURE, EXPORT_PUBKEY, EXPORT_CERT,
     EXPORT_SIGNATURE + GENERATE_SIGNATURE}
MutatingOps ==
    {"open_output", "allocate_signature_space", "insert_signature",
     "remove_signature", "finalize_signatures", "pe_update"}
\* open_input has returned: it was called and the run went on after it
InputLoaded ==
    \E i \in 1..Len(trace) :
       OpAt(i) = "open_input" /\ (i < Len(trace) \/ status # "fatal")

\* C18: a read-only action never calls open_output,
\* allocate_signature_space, insert_signature, remove_signature, finalize or
\* the commit; the output binary path and the input binary stay as they
\* were, and the parsed table keeps the count and order open_input gave it.
C18_ReadOnly ==
    action \in ReadOnlyActions =>
       /\ \A i \in 1..Len(trace) : OpAt(i) \notin MutatingOps
       /\ outfd = -1 /\ outpe = NULL /\ outspace = 0
       /\ \A p \in BinPaths : fs[p] = fs0[p]
       /\ IF InputLoaded
            THEN /\ signatures = fs0[infile].certs
                 /\ num_signatures = Len(fs0[infile].certs)
            ELSE signatures = << >> /\ num_signatures = 0

\* generate-and-export has completed on a two-entry table and written its
\* signature file
C18_Witness ==
    /\ action = EXPORT_SIGNATURE + GENERATE_SIGNATURE
    /\ status = "returned"
    /\ num_signatures = 2
    /\ signatures = fs0[infile].certs
    /\ fs[auxname["outsig"]].raw = <<GeneratedSig>>
    /\ fs[outfile] = fs0[outfile]


C20_FatalBeforeCommit ==
    /\ status = "fatal"
          => /\ ~Called("finalize_signatures")
             /\ ~Called("pe_update")
             /\ outfd # -1 => /\ fs[outfile].exists
                              /\ ~fs[outfile].final
                              /\ Called("open_output")
    /\ Called("finalize_signatures")
          => /\ status # "fatal"
             /\ errmsg = ""
             /\ \A i \in 1..Len(trace) :
                   /\ OpAt(i) = "check_signum_remove"
                         => ~RemoveSignumInvalid(trace[i].signum,
                                                 trace[i].count)
                   /\ OpAt(i) = "check_signum_import"
                         => ~ImportSignumInvalid(trace[i].signum,
                                                 trace[i].count)
                   /\ OpAt(i) = "check_inputs" => CheckInputsError = ""
             /\ Called("check_signature_space")
                   => TableSize(finalize_signatures(signatures,
                                                    num_signatures))
                         <= outspace

\* remove-signature has died on an out-of-range index with the output
\* created, loaded and not finalized
C20_Witness ==
    /\ action = REMOVE_SIGNATURE
    /\ status = "fatal"
    /\ LastOp = "check_signum_remove"
    /\ outfd = OutFd
    /\ outpe # NULL
    /\ fs[outfile].exists
    /\ ~fs[outfile].final
    /\ fs[outfile].certs = << >>

=============================================================================
